---- MODULE Spec2Model ----
(***************************************************************************)
(* Model of bad-apple: the encode pipeline of src/src/generate.py          *)
(* (video_to_ascii, process_frame, write_ascii_to_file), the artifact      *)
(* parser of src/src/display.py (read_ascii_frames) and the playback loop  *)
(* (display_ascii_animation).                                              *)
(***************************************************************************)
EXTENDS Integers, Sequences, FiniteSets, TLC

\* ---------------------------------------------------------------- bounds
MaxFrameCount == 4
MaxStep == 2
MaxProcs == 2
MaxUnreadable == 1
MaxThrows == 1        \* frames whose transcode raises
MaxFrames == 3        \* len(frames) at playback
MaxRender == 4        \* longest render, in clock ticks
MaxLag == 1           \* longest delay between two clock readings outside the render
MaxOversleep == 1     \* time.sleep may return late by this much
MaxTermRows == 2      \* terminal heights 1..MaxTermRows
MaxTermCols == 2      \* terminal widths 1..MaxTermCols
TicksPerFrame == 2    \* resolution of the modelled clock: ticks per frame duration
MaxNarrowWidth == 2   \* render widths 1..MaxNarrowWidth, besides the widths around 80
MaxArtFrames == 2     \* frames per encoded artifact
MaxArtRows == 2       \* rows per frame in an artifact
MaxTextFrames == 3    \* frames per artifact given as text

\* ------------------------------------------------------------- variables
VARIABLES
    \* encode pipeline (generate.py)
    frame_count,      \* cap.get(CAP_PROP_FRAME_COUNT)
    frame_step,       \* parameter frame_step
    num_processes,    \* parameter num_processes
    unreadable,       \* source indices for which cap.read() returns ret = False
    throws,           \* source indices for which frame_to_ascii raises
    total_frames,     \* len(frame_indices)
    mainpc,           \* position of video_to_ascii
    pos,              \* position of the read loop in frame_indices
    futures,          \* list of submitted futures (by frame index)
    finished,         \* futures whose process_frame call has returned
    results,          \* ascii_art returned by each finished call: "" or a frame text
    yielded,          \* futures already yielded by as_completed
    cur,              \* the future as_completed has just yielded
    queue,            \* Queue(maxsize = 2 * num_processes), head first
    wpc,              \* position of the writer thread
    frames,           \* the writer's dict `frames` (keys; value = text of that key)
    frames_written,   \* the writer's counter
    frame_idx,        \* the writer's local frame_idx: index of the item it took last
    out,              \* frame texts written to the file so far, by frame index
    received,         \* frame indices the writer has taken from the queue, in order
    written,          \* the texts passed to f.write for the frames, in order
    \* playback (display.py, display_ascii_animation)
    ppc,              \* position of display_ascii_animation
    nframes,          \* len(frames)
    frame_rows,       \* number of lines of each frame (frames[i].split('\n'))
    frame_cols,       \* length of each line of a frame
    fps,              \* parameter fps
    now,              \* the wall clock time.time(), in ticks
    start_time,
    frame_start_time,
    frame_index,
    render_time,
    elapsed_time,
    time_to_sleep,
    terminal_height,  \* result of stdscr.getmaxyx() at line 57
    terminal_width,
    sinkRows,         \* the terminal's actual height now
    sinkCols,         \* the terminal's actual width now
    drawnRows,        \* rows addressed by addstr in the last render (y = 0..drawnRows-1)
    drawnCols,        \* characters per row passed to addstr in the last render
    shown,            \* frame indices rendered so far, in order
    sleeps,           \* number of time.sleep calls so far
    dropped,          \* frame indices skipped by a catch-up
    key,              \* result of the last stdscr.getch()
    resized,          \* the terminal changed size since the last stdscr.getch()
    \* artifact: written by write_ascii_to_file, read by read_ascii_frames
    apc,              \* position of the encode-then-decode run
    a_kind,           \* "encoded": written by generate.py; "wellformed", "legacy", "dos", "badfps": given
    a_width,          \* parameter width of video_to_ascii
    a_meta,           \* video_metadata
    a_gray,           \* the resized grayscale frames, flattened, in index order
    a_text,           \* the text frames (lists of rows) the artifact holds
    file,             \* contents of the artifact file
    r_result,         \* what read_ascii_frames returned
    a_fps_text,       \* the text after "Video FPS:" in a given artifact's header
    \* glyph mapping of frame_to_ascii applied to two luminance samples
    gpc,              \* "input", then "mapped"
    g_dark,           \* a luminance sample
    g_light,          \* a luminance sample, g_dark <= g_light
    g_dark_pos,       \* ramp position selected for g_dark
    g_light_pos,      \* ramp position selected for g_light
    g_light_char      \* ramp character selected for g_light

encVars == <<frame_count, frame_step, num_processes, unreadable, throws, total_frames,
             mainpc, pos, futures, finished, results, yielded, cur, queue,
             wpc, frames, frames_written, frame_idx, out, received, written>>

playVars == <<ppc, nframes, frame_rows, frame_cols, fps, now, start_time, frame_start_time, frame_index,
              render_time, elapsed_time, time_to_sleep, terminal_height,
              terminal_width, sinkRows, sinkCols, drawnRows, drawnCols, shown,
              sleeps, dropped, key, resized>>

glyphVars == <<gpc, g_dark, g_light, g_dark_pos, g_light_pos, g_light_char>>

artVars == <<apc, a_kind, a_width, a_meta, a_gray, a_text, file, r_result, a_fps_text,
             glyphVars>>

vars == <<encVars, playVars, artVars>>

\* ------------------------------------------------------------- helpers
None == -1

Min(a, b) == IF a < b THEN a ELSE b

\* list(range(0, n, k)) for k >= 1
RECURSIVE RangeFrom(_, _, _)
RangeFrom(i, n, k) == IF i >= n THEN <<>> ELSE <<i>> \o RangeFrom(i + k, n, k)

FrameIndices(n, k) == RangeFrom(0, n, k)

SeqToSet(s) == {s[i] : i \in 1..Len(s)}

\* a queue that admits one result more than its maxsize
QueueMaxSizePlusOne(np) == np * 2 + 1

\* Queue(maxsize=num_processes * 2)
QueueMaxSize(np) == np * 2

\* a writer that does not recognise the end-of-queue signal
NeverSentinel(idx) == FALSE

\* if frame_idx is None:  # End of queue signal.
IsSentinel(idx) == idx = None

\* ------------------------------------------------------ write_ascii_to_file
\* frames[frame_idx] = ascii_art
Store(buf, idx) == buf \cup {idx}

\* while frames_written in frames:
DrainTest(buf, fw) == fw \in buf

\* a writer that takes the highest buffered key
PopKeyHighest(buf, fw) == CHOOSE k \in buf : \A m \in buf : m <= k

\* frames.pop(frames_written): the key whose text is written
PopKey(buf, fw) == fw

\* a writer that reads frames[key] without removing it from the dict
PopKeeping(buf, k) == buf

\* frames.pop(key): the dict without that key
Pop(buf, k) == buf \ {k}

\* a drain that writes at most one frame per received result (`if` for `while`)
AfterIncrementOnce == "loop"

\* after frames_written += 1 the inner while tests again
AfterIncrement == "drain"

\* ------------------------------------------------------------------ Init
\* the player is not running
PlayIdle ==
    /\ ppc = "idle"
    /\ nframes = 0
    /\ frame_rows = 1
    /\ frame_cols = 1
    /\ fps = 1
    /\ now = 0
    /\ start_time = 0
    /\ frame_start_time = 0
    /\ frame_index = 0
    /\ render_time = 0
    /\ elapsed_time = 0
    /\ time_to_sleep = 0
    /\ terminal_height = 0
    /\ terminal_width = 0
    /\ sinkRows = 1
    /\ sinkCols = 1
    /\ drawnRows = 0
    /\ drawnCols = 0
    /\ shown = <<>>
    /\ sleeps = 0
    /\ dropped = {}
    /\ key = -1
    /\ resized = FALSE

NoMeta == [resolution |-> <<>>, fps |-> 0]
NoResult == [frames |-> <<>>, metadata |-> <<>>, raised |-> FALSE]

\* no sample is being mapped
GlyphIdle ==
    /\ gpc = "idle"
    /\ g_dark = 0
    /\ g_light = 0
    /\ g_dark_pos = None
    /\ g_light_pos = None
    /\ g_light_char = ""

\* no artifact is being written or read
ArtIdle ==
    /\ GlyphIdle
    /\ apc = "idle"
    /\ a_kind = "none"
    /\ a_width = 0
    /\ a_meta = NoMeta
    /\ a_gray = <<>>
    /\ a_text = <<>>
    /\ file = <<>>
    /\ r_result = NoResult
    /\ a_fps_text = <<>>

\* the encoder is not running
EncIdle ==
    /\ frame_count = 0
    /\ frame_step = 1
    /\ num_processes = 1
    /\ unreadable = {}
    /\ throws = {}
    /\ total_frames = 0
    /\ mainpc = "idle"
    /\ pos = 1
    /\ futures = <<>>
    /\ finished = {}
    /\ results = <<>>
    /\ yielded = {}
    /\ cur = None
    /\ queue = <<>>
    /\ wpc = "unstarted"
    /\ frames = {}
    /\ frames_written = 0
    /\ frame_idx = None
    /\ out = <<>>
    /\ received = <<>>
    /\ written = <<>>

InitEnc ==
    /\ PlayIdle
    /\ ArtIdle
    /\ frame_count \in 0..MaxFrameCount
    /\ frame_step \in 1..MaxStep
    /\ num_processes \in 1..MaxProcs
    /\ unreadable \in {u \in SUBSET SeqToSet(FrameIndices(frame_count, frame_step)) :
                          Cardinality(u) <= MaxUnreadable}
    /\ throws \in {t \in SUBSET (SeqToSet(FrameIndices(frame_count, frame_step))
                                    \ unreadable) :
                      Cardinality(t) <= MaxThrows}
    /\ total_frames = Len(FrameIndices(frame_count, frame_step))
    /\ mainpc = "read"
    /\ pos = 1
    /\ futures = <<>>
    /\ finished = {}
    /\ results = <<>>
    /\ yielded = {}
    /\ cur = None
    /\ queue = <<>>
    /\ wpc = "unstarted"
    /\ frames = {}
    /\ frames_written = 0
    /\ frame_idx = None
    /\ out = <<>>
    /\ received = <<>>
    /\ written = <<>>

encParams == <<frame_count, frame_step, num_processes, unreadable, throws, total_frames>>
mainVars == <<mainpc, pos, cur, yielded>>
writerVars == <<wpc, frames, frames_written, frame_idx, out, received, written>>

\* --------------------------------------------------- video_to_ascii (main)
\* for i in frame_indices: ret, frame = cap.read(); executor.submit(...)
SubmitFrame ==
    /\ mainpc = "read"
    /\ pos <= total_frames
    /\ LET i == FrameIndices(frame_count, frame_step)[pos] IN
         /\ i \notin unreadable
         /\ futures' = Append(futures, i)
    /\ pos' = pos + 1
    /\ UNCHANGED <<artVars, playVars, encParams, mainpc, finished, results, yielded, cur, queue, writerVars>>

\* if not ret: logging.warning(...); continue
SkipUnreadableFrame ==
    /\ mainpc = "read"
    /\ pos <= total_frames
    /\ FrameIndices(frame_count, frame_step)[pos] \in unreadable
    /\ pos' = pos + 1
    /\ UNCHANGED <<artVars, playVars, encParams, mainpc, futures, finished, results, yielded, cur, queue, writerVars>>

\* writer_thread = Thread(...); writer_thread.start()
StartWriter ==
    /\ mainpc = "read"
    /\ pos > total_frames
    /\ mainpc' = "forward"
    /\ wpc' = "open"
    /\ UNCHANGED <<artVars, playVars, encParams, pos, futures, finished, results, yielded, cur, queue,
                   frames, frames_written, frame_idx, out, received, written>>

\* for future in as_completed(futures): frame_idx, ascii_art = future.result()
YieldCompleted ==
    /\ mainpc = "forward"
    /\ \E f \in finished \ yielded :
         /\ cur' = f
         /\ yielded' = yielded \cup {f}
    /\ mainpc' = "put"
    /\ UNCHANGED <<artVars, playVars, encParams, pos, futures, finished, results, queue, writerVars>>

\* queue.put((frame_idx, ascii_art)), blocking while the queue is full
PutResult ==
    /\ mainpc = "put"
    /\ Len(queue) < QueueMaxSize(num_processes)
    /\ queue' = Append(queue, cur)
    /\ cur' = None
    /\ mainpc' = "forward"
    /\ UNCHANGED <<artVars, playVars, encParams, pos, futures, finished, results, yielded, writerVars>>

\* queue.put((None, None)) after as_completed is exhausted
PutSentinel ==
    /\ mainpc = "forward"
    /\ yielded = SeqToSet(futures)
    /\ Len(queue) < QueueMaxSize(num_processes)
    /\ queue' = Append(queue, None)
    /\ mainpc' = "join"
    /\ UNCHANGED <<artVars, playVars, encParams, pos, futures, finished, results, yielded, cur, writerVars>>

\* writer_thread.join(); leaving the executor; cap.release()
JoinWriter ==
    /\ mainpc = "join"
    /\ wpc = "done"
    /\ mainpc' = "done"
    /\ UNCHANGED <<artVars, playVars, encParams, pos, futures, finished, results, yielded, cur, queue, writerVars>>

\* ------------------------------------------------ ProcessPoolExecutor worker
\* The pool runs the submitted calls first-in first-out on max_workers
\* processes: the calls in progress are the first max_workers unfinished ones.
InProgress ==
    {futures[j] : j \in {j \in 1..Len(futures) :
        /\ futures[j] \notin finished
        /\ Cardinality({m \in 1..(j - 1) : futures[m] \notin finished}) < num_processes}}

\* the text a successful process_frame call returns, not further inspected here
FrameArt == "art"

\* the ascii_art of the except branch of process_frame
EmptyArt == ""

\* process_frame returns (frame_idx, text)
ProcessFrameReturns ==
    /\ \E f \in InProgress \ throws :
         /\ finished' = finished \cup {f}
         /\ results' = (f :> FrameArt) @@ results
    /\ UNCHANGED <<artVars, playVars, encParams, mainVars, futures, queue, writerVars>>

\* except Exception: logging.error(...); return frame_idx, ""
ProcessFrameCatches ==
    /\ \E f \in InProgress \cap throws :
         /\ finished' = finished \cup {f}
         /\ results' = (f :> EmptyArt) @@ results
    /\ UNCHANGED <<artVars, playVars, encParams, mainVars, futures, queue, writerVars>>

\* ------------------------------------------------ write_ascii_to_file (thread)
\* with open(file_path, 'w') as f: header; frames = {}; frames_written = 0
WriterOpen ==
    /\ wpc = "open"
    /\ wpc' = "loop"
    /\ frames' = {}
    /\ frames_written' = 0
    /\ out' = <<>>
    /\ written' = <<>>
    /\ UNCHANGED <<artVars, playVars, encParams, mainVars, futures, finished, results, queue,
                   frame_idx, received>>

\* while frames_written < total_frames:
WriterLoopTest ==
    /\ wpc = "loop"
    /\ wpc' = IF frames_written < total_frames THEN "get" ELSE "done"
    /\ UNCHANGED <<artVars, playVars, encParams, mainVars, futures, finished, results, queue,
                   frames, frames_written, frame_idx, out, received, written>>

\* frame_idx, ascii_art = queue.get(timeout=1)
WriterGet ==
    /\ wpc = "get"
    /\ queue # <<>>
    /\ frame_idx' = Head(queue)
    /\ queue' = Tail(queue)
    /\ received' = IF IsSentinel(Head(queue)) THEN received ELSE Append(received, Head(queue))
    /\ wpc' = "check"
    /\ UNCHANGED <<artVars, playVars, encParams, mainVars, futures, finished, results,
                   frames, frames_written, out, written>>

\* if frame_idx is None: continue
WriterSkipSentinel ==
    /\ wpc = "check"
    /\ IsSentinel(frame_idx)
    /\ wpc' = "loop"
    /\ UNCHANGED <<artVars, playVars, encParams, mainVars, futures, finished, results, queue,
                   frames, frames_written, frame_idx, out, received, written>>

\* frames[frame_idx] = ascii_art
WriterStore ==
    /\ wpc = "check"
    /\ ~IsSentinel(frame_idx)
    /\ frames' = Store(frames, frame_idx)
    /\ wpc' = "drain"
    /\ UNCHANGED <<artVars, playVars, encParams, mainVars, futures, finished, results, queue,
                   frames_written, frame_idx, out, received, written>>

\* while frames_written in frames:
WriterDrainTest ==
    /\ wpc = "drain"
    /\ wpc' = IF DrainTest(frames, frames_written) THEN "write" ELSE "loop"
    /\ UNCHANGED <<artVars, playVars, encParams, mainVars, futures, finished, results, queue,
                   frames, frames_written, frame_idx, out, received, written>>

\* f.write(frames.pop(frames_written))
WriterWrite ==
    /\ wpc = "write"
    /\ LET k == PopKey(frames, frames_written) IN
         /\ frames' = Pop(frames, k)
         /\ out' = Append(out, k)
         /\ written' = Append(written, results[k])
    /\ wpc' = "incr"
    /\ UNCHANGED <<artVars, playVars, encParams, mainVars, futures, finished, results, queue,
                   frames_written, frame_idx, received>>

\* frames_written += 1
WriterIncrement ==
    /\ wpc = "incr"
    /\ frames_written' = frames_written + 1
    /\ wpc' = AfterIncrement
    /\ UNCHANGED <<artVars, playVars, encParams, mainVars, futures, finished, results, queue,
                   frames, frame_idx, out, received, written>>

\* except Empty: continue
WriterTimeout ==
    /\ wpc = "get"
    /\ queue = <<>>
    /\ wpc' = "loop"
    /\ UNCHANGED <<artVars, playVars, encParams, mainVars, futures, finished, results, queue,
                   frames, frames_written, frame_idx, out, received, written>>

MainNext == SubmitFrame \/ SkipUnreadableFrame \/ StartWriter \/ YieldCompleted
            \/ PutResult \/ PutSentinel \/ JoinWriter
WriterNext == WriterOpen \/ WriterLoopTest \/ WriterGet \/ WriterSkipSentinel
              \/ WriterStore \/ WriterDrainTest \/ WriterWrite \/ WriterIncrement
              \/ WriterTimeout

PoolNext == ProcessFrameReturns \/ ProcessFrameCatches

NextEnc == MainNext \/ PoolNext \/ WriterNext

SpecEnc == InitEnc /\ [][NextEnc]_vars

SpecEncFair == SpecEnc /\ WF_vars(MainNext) /\ WF_vars(PoolNext)
               /\ WF_vars(WriterNext)

\* ============================================ display_ascii_animation (display.py)
NoKey == -1

\* getch() after the terminal changed size
KEY_RESIZE == 410

\* codes of keys the user may type: space and "q"
TypedKeys == {32, 113}

\* fps = metadata.get('fps', 24)
DefaultFps == 24

\* the frame rates played
FpsValues == {1, DefaultFps}

\* The clock is read in ticks of 1 / (fps * TicksPerFrame) second: one second
\* is this many ticks.
TicksPerSecond(f) == TicksPerFrame * f

\* frame_duration = 1 / fps, in ticks
FrameDuration(f) == TicksPerSecond(f) \div f

\* stdscr.addstr(y, 0, line[:terminal_width]) raises curses.error when the text
\* ends in the last column of the last row of the window
AddstrRaises(rows, cols, height, width) == rows >= height /\ cols >= width

\* while frame_index < len(frames)
Running(i, n) == i < n

\* expected_time - elapsed_time - render_time, expected_time = (frame_index + 1) * frame_duration
TimeToSleep(i, d, elapsed, render) == (i + 1) * d - elapsed - render

\* a pacing step that advances by two frames
NextIndexSkipping(i) == i + 2

\* frame_index += 1
NextIndex(i) == i + 1

\* a catch-up that takes the frame before the one the clock indicates
CatchUpIndexBehind(elapsed, d) == (elapsed \div d) - 1

\* int(elapsed_time // frame_duration)
CatchUpIndexNext(elapsed, d) == (elapsed \div d) + 1

CatchUpIndex(elapsed, d) == elapsed \div d

\* if stdscr.getch() != -1: return
AfterPollIgnoringKey(k) == "test"

AfterPoll(k) == IF k # NoKey THEN "stopped" ELSE "test"

\* frame_lines[:terminal_height] and line[:terminal_width]
Clip(len, limit) == Min(len, limit)

InitPlay ==
    /\ EncIdle
    /\ ArtIdle
    /\ ppc = "start"
    /\ nframes \in 0..MaxFrames
    /\ frame_rows \in 1..MaxTermRows
    /\ frame_cols \in 1..MaxTermCols
    /\ fps \in FpsValues
    /\ now = 0
    /\ start_time = 0
    /\ frame_start_time = 0
    /\ frame_index = 0
    /\ render_time = 0
    /\ elapsed_time = 0
    /\ time_to_sleep = 0
    /\ terminal_height = 0
    /\ terminal_width = 0
    /\ sinkRows \in 1..MaxTermRows
    /\ sinkCols \in 1..MaxTermCols
    /\ drawnRows = 0
    /\ drawnCols = 0
    /\ shown = <<>>
    /\ sleeps = 0
    /\ dropped = {}
    /\ key = NoKey
    /\ resized = FALSE

\* playback in a terminal at least as large as the frames
InitPace ==
    /\ InitPlay
    /\ sinkRows = MaxTermRows
    /\ sinkCols = MaxTermCols

timeVars == <<now, start_time, frame_start_time, render_time, elapsed_time, time_to_sleep>>
sinkVars == <<sinkRows, sinkCols>>
drawVars == <<drawnRows, drawnCols, shown>>

\* lines 54-61: getmaxyx(), frame_duration, start_time = time.time(), frame_index = 0
PlaybackStart ==
    /\ ppc = "start"
    /\ terminal_height' = sinkRows
    /\ terminal_width' = sinkCols
    /\ start_time' = now
    /\ frame_index' = 0
    /\ ppc' = "test"
    /\ UNCHANGED <<artVars, encVars, nframes, frame_rows, frame_cols, fps, now, frame_start_time, render_time,
                   elapsed_time, time_to_sleep, sinkVars, drawVars, sleeps, dropped, key, resized>>

\* line 62-63: the loop test; frame_start_time = time.time()
LoopTest ==
    /\ ppc = "test"
    /\ \E lag \in 0..MaxLag :
         IF Running(frame_index, nframes)
         THEN /\ now' = now + lag
              /\ frame_start_time' = now'
              /\ ppc' = "render"
         ELSE /\ ppc' = "stopped"
              /\ UNCHANGED <<now, frame_start_time>>
    /\ UNCHANGED <<artVars, encVars, nframes, frame_rows, frame_cols, fps, start_time, frame_index, render_time,
                   elapsed_time, time_to_sleep, terminal_height, terminal_width,
                   sinkVars, drawVars, sleeps, dropped, key, resized>>

\* lines 66-76: clear, addstr each clipped row, refresh; render_time.
\* An addstr that fills the last cell of the window raises; the exception
\* leaves display_ascii_animation.
Render ==
    /\ ppc = "render"
    /\ drawnRows' = Clip(frame_rows, terminal_height)
    /\ drawnCols' = Clip(frame_cols, terminal_width)
    /\ shown' = Append(shown, frame_index)
    /\ \E r \in 0..MaxRender :
         /\ now' = now + r
         /\ render_time' = IF AddstrRaises(frame_rows, frame_cols, terminal_height, terminal_width)
                           THEN render_time
                           ELSE now' - frame_start_time
    /\ ppc' = IF AddstrRaises(frame_rows, frame_cols, terminal_height, terminal_width)
              THEN "raised"
              ELSE "pace"
    /\ UNCHANGED <<artVars, encVars, nframes, frame_rows, frame_cols, fps, start_time,
                   frame_start_time, frame_index, elapsed_time, time_to_sleep,
                   terminal_height, terminal_width, sinkVars, sleeps, dropped, key, resized>>

\* lines 77-83: time_to_sleep > 0: sleep, frame_index += 1
SleepAndAdvance ==
    /\ ppc = "pace"
    /\ \E lag \in 0..MaxLag, over \in 0..MaxOversleep :
         LET e == (now + lag) - start_time
             t == TimeToSleep(frame_index, FrameDuration(fps), e, render_time)
         IN /\ t > 0
            /\ elapsed_time' = e
            /\ time_to_sleep' = t
            /\ now' = now + lag + t + over
    /\ sleeps' = sleeps + 1
    /\ frame_index' = NextIndex(frame_index)
    /\ ppc' = "poll"
    /\ UNCHANGED <<artVars, encVars, nframes, frame_rows, frame_cols, fps, start_time, frame_start_time, render_time,
                   terminal_height, terminal_width, sinkVars, drawVars, dropped, key, resized>>

\* lines 77-86: time_to_sleep <= 0: frame_index = int(elapsed_time // frame_duration)
CatchUp ==
    /\ ppc = "pace"
    /\ \E lag \in 0..MaxLag :
         LET e == (now + lag) - start_time
             t == TimeToSleep(frame_index, FrameDuration(fps), e, render_time)
         IN /\ t <= 0
            /\ elapsed_time' = e
            /\ time_to_sleep' = t
            /\ now' = now + lag
            /\ frame_index' = CatchUpIndex(e, FrameDuration(fps))
    /\ dropped' = dropped \cup ((frame_index + 1)..(frame_index' - 1))
    /\ ppc' = "poll"
    /\ UNCHANGED <<artVars, encVars, nframes, frame_rows, frame_cols, fps, start_time, frame_start_time, render_time,
                   terminal_height, terminal_width, sinkVars, drawVars, sleeps, key, resized>>

\* what stdscr.getch() can return: the code of a key that was typed, or,
\* when none was typed, KEY_RESIZE after a change of the terminal's size and
\* -1 otherwise
GetchResults(pending_resize) ==
    TypedKeys \cup (IF pending_resize THEN {KEY_RESIZE} ELSE {NoKey})

\* lines 89-90: non-blocking getch(); any result other than -1 returns
PollKey ==
    /\ ppc = "poll"
    /\ \E k \in GetchResults(resized) :
         /\ key' = k
         /\ ppc' = AfterPoll(k)
    /\ resized' = FALSE
    /\ UNCHANGED <<artVars, encVars, nframes, frame_rows, frame_cols, fps, timeVars, frame_index,
                   terminal_height, terminal_width, sinkVars, drawVars, sleeps, dropped>>

\* the user resizes the terminal while the animation plays
ResizeTerminal ==
    /\ ppc \in {"test", "render", "pace", "poll"}
    /\ \E h \in 1..MaxTermRows, w \in 1..MaxTermCols :
         /\ <<h, w>> # <<sinkRows, sinkCols>>
         /\ sinkRows' = h
         /\ sinkCols' = w
    /\ resized' = TRUE
    /\ UNCHANGED <<artVars, encVars, ppc, nframes, frame_rows, frame_cols, fps, timeVars,
                   frame_index, terminal_height, terminal_width, drawVars, sleeps, dropped, key>>

PlayNext == PlaybackStart \/ LoopTest \/ Render \/ SleepAndAdvance \/ CatchUp \/ PollKey

NextPlay == PlayNext \/ ResizeTerminal

SpecPlay == InitPlay /\ [][NextPlay]_vars

\* playback in a terminal that keeps its size
SpecPace == InitPace /\ [][PlayNext]_vars

\* the player's own steps are always taken eventually; the user need not act
SpecPaceFair == SpecPace /\ WF_vars(PlayNext)

\* ================================================== text and artifact format
\* Text is a sequence of one-character strings.
NL == "\n"

ASCII_CHARS == <<"@", "%", "#", "*", "+", "=", "-", ":", ".", " ">>

\* "=" * 80 (generate.py line 90, display.py line 34)
RuleLength == 80

\* c * n
Repeat(c, n) == [i \in 1..n |-> c]

RECURSIVE Concat(_)
Concat(ss) == IF ss = <<>> THEN <<>> ELSE Head(ss) \o Concat(Tail(ss))

\* sep.join(parts)
RECURSIVE Join(_, _)
Join(parts, sep) ==
    IF parts = <<>> THEN <<>>
    ELSE IF Len(parts) = 1 THEN parts[1]
    ELSE parts[1] \o sep \o Join(Tail(parts), sep)

Digits == <<"0", "1", "2", "3", "4", "5", "6", "7", "8", "9">>

\* str(n) for an int n, as the f-string formats it
RECURSIVE NatToStr(_)
NatToStr(n) == IF n < 10 THEN <<Digits[n + 1]>>
               ELSE NatToStr(n \div 10) \o <<Digits[(n % 10) + 1]>>

IntToStr(n) == IF n < 0 THEN <<"-">> \o NatToStr(0 - n) ELSE NatToStr(n)

CR == "\r"

\* The characters str.strip() and str.rstrip() remove (str.isspace) among the
\* code points up to 255: tab, line feed, vertical tab (11), form feed, carriage
\* return, the separators 28..31, space, next line (133) and no-break space (160).
\* The whitespace beyond code point 255 cannot be written in a string here.
Whitespace == {" ", NL, "\t", CR, "\f", "", "", "", "", "", "", " "}

\* positions of s holding a non-whitespace character
Solid(s) == {i \in 1..Len(s) : s[i] \notin Whitespace}

RStrip(s) == IF Solid(s) = {} THEN <<>>
             ELSE SubSeq(s, 1, CHOOSE i \in Solid(s) : \A j \in Solid(s) : j <= i)

LStrip(s) == IF Solid(s) = {} THEN <<>>
             ELSE SubSeq(s, CHOOSE i \in Solid(s) : \A j \in Solid(s) : i <= j, Len(s))

Strip(s) == LStrip(RStrip(s))

StartsWith(s, prefix) ==
    Len(s) >= Len(prefix) /\ SubSeq(s, 1, Len(prefix)) = prefix

\* line.split(":", 1)[1], for a line that contains a colon
AfterFirstColon(s) ==
    LET k == CHOOSE i \in 1..Len(s) : s[i] = ":" /\ \A j \in 1..(i - 1) : s[j] # ":"
    IN SubSeq(s, k + 1, Len(s))

DigitValue(c) == CHOOSE d \in 0..9 : Digits[d + 1] = c

RECURSIVE DigitsValue(_)
DigitsValue(s) == IF s = <<>> THEN 0
                  ELSE DigitsValue(SubSeq(s, 1, Len(s) - 1)) * 10 + DigitValue(s[Len(s)])

\* the digits of an integer literal, its underscores removed
RECURSIVE WithoutUnderscores(_)
WithoutUnderscores(s) ==
    IF s = <<>> THEN <<>>
    ELSE IF Head(s) = "_" THEN WithoutUnderscores(Tail(s))
    ELSE <<Head(s)>> \o WithoutUnderscores(Tail(s))

\* a parser that reads every unparsable text as 0 instead of raising
ParseIntLenient(text) ==
    LET t == Strip(text)
        good == t # <<>> /\ \A i \in 1..Len(t) : t[i] \in SeqToSet(Digits)
    IN [ok |-> TRUE, val |-> IF good THEN DigitsValue(t) ELSE 0]

\* int(text): surrounding whitespace and one sign allowed, then decimal digits
\* with single underscores between them; anything else raises ValueError
\* (ok = FALSE)
ParseInt(text) ==
    LET t == Strip(text)
        signed == t # <<>> /\ t[1] \in {"+", "-"}
        body == IF signed THEN Tail(t) ELSE t
        good == /\ body # <<>>
                /\ \A i \in 1..Len(body) : body[i] \in SeqToSet(Digits) \cup {"_"}
                /\ body[1] # "_"
                /\ body[Len(body)] # "_"
                /\ \A i \in 1..(Len(body) - 1) : ~(body[i] = "_" /\ body[i + 1] = "_")
        n == IF good THEN DigitsValue(WithoutUnderscores(body)) ELSE 0
    IN IF good
       THEN [ok |-> TRUE, val |-> IF signed /\ t[1] = "-" THEN 0 - n ELSE n]
       ELSE [ok |-> FALSE, val |-> 0]

\* open(path, 'r'): text mode reads with universal newlines, "\r\n" and a lone
\* "\r" both arrive as "\n"
UniversalNewlines(text) ==
    LET Dropped == {i \in 2..Len(text) : text[i] = NL /\ text[i - 1] = CR}
        src(j) == CHOOSE i \in j..Min(Len(text), j + Cardinality(Dropped)) :
                      /\ i \notin Dropped
                      /\ i - Cardinality({k \in Dropped : k < i}) = j
    IN [j \in 1..(Len(text) - Cardinality(Dropped)) |->
           IF text[src(j)] = CR THEN NL ELSE text[src(j)]]

\* file.readlines(): the lines of the text, each with its newline
RECURSIVE ReadLinesFrom(_, _)
ReadLinesFrom(text, from) ==
    IF from > Len(text) THEN <<>>
    ELSE IF \E i \in from..Len(text) : text[i] = NL
    THEN LET k == CHOOSE i \in from..Len(text) :
                      text[i] = NL /\ \A j \in from..(i - 1) : text[j] # NL
         IN <<SubSeq(text, from, k)>> \o ReadLinesFrom(text, k + 1)
    ELSE <<SubSeq(text, from, Len(text))>>

ReadLines(text) == ReadLinesFrom(UniversalNewlines(text), 1)

\* -------------------------------------------------------------- generate.py
\* a mapper whose bucket width is computed from one ramp character too few
GlyphIndexWideBuckets(pixel_value) ==
    Min(Len(ASCII_CHARS) - 1, pixel_value \div (256 \div (Len(ASCII_CHARS) - 1)))

\* ASCII_CHARS[min(len(ASCII_CHARS) - 1, pixel_value // (256 // len(ASCII_CHARS)))]
GlyphIndex(pixel_value) ==
    Min(Len(ASCII_CHARS) - 1, pixel_value \div (256 \div Len(ASCII_CHARS)))

Glyph(pixel_value) == ASCII_CHARS[GlyphIndex(pixel_value) + 1]

\* frame_to_ascii for the resized grayscale frame, flattened
FrameToAscii(gray) == [i \in 1..Len(gray) |-> Glyph(gray[i])]

\* [ascii_art[i:i + width] for i in range(0, len(ascii_art), width)]
RECURSIVE Chunks(_, _)
Chunks(text, width) ==
    IF text = <<>> THEN <<>>
    ELSE <<SubSeq(text, 1, Min(width, Len(text)))>>
         \o Chunks(SubSeq(text, width + 1, Len(text)), width)

AsciiArtLines(gray, width) == Chunks(FrameToAscii(gray), width)

\* "\n".join(ascii_art_lines) + "\n" + "=" * width + "\n"
FrameText(lines, width) == Join(lines, <<NL>>) \o <<NL>> \o Repeat("=", width) \o <<NL>>

\* the text process_frame returns for a frame
ProcessFrame(gray, width) == FrameText(AsciiArtLines(gray, width), width)

VideoResolutionKey == <<"V", "i", "d", "e", "o", " ", "R", "e", "s", "o", "l", "u", "t", "i", "o", "n", ":">>
VideoFpsKey == <<"V", "i", "d", "e", "o", " ", "F", "P", "S", ":">>

\* the three header writes of write_ascii_to_file
HeaderText(meta) ==
    VideoResolutionKey \o <<" ">> \o meta.resolution \o <<NL>>
    \o VideoFpsKey \o <<" ">> \o IntToStr(meta.fps) \o <<NL>>
    \o <<NL>> \o Repeat("=", RuleLength) \o <<NL, NL>>

\* --------------------------------------------------------------- display.py
\* parser state: parsing_metadata, frame_lines, frames, metadata, raised
ParserStart ==
    [parsing_metadata |-> TRUE, frame_lines |-> <<>>, frames |-> <<>>,
     metadata |-> <<>>, raised |-> FALSE]

\* line = line.rstrip()
StripLine(raw) == RStrip(raw)

\* if line.startswith("=" * 80)
IsSeparator(line) == StartsWith(line, Repeat("=", RuleLength))

\* one iteration of `for line in lines` (lines 18-39)
ParseLine(st, raw) ==
    LET line == StripLine(raw) IN
    IF st.raised THEN st
    ELSE IF line = <<>> THEN [st EXCEPT !.parsing_metadata = FALSE]
    ELSE IF st.parsing_metadata
    THEN IF StartsWith(line, VideoResolutionKey)
         THEN [st EXCEPT !.metadata =
                   ("resolution" :> Strip(AfterFirstColon(line))) @@ st.metadata]
         ELSE IF StartsWith(line, VideoFpsKey)
         THEN LET n == ParseInt(AfterFirstColon(line)) IN
              IF n.ok THEN [st EXCEPT !.metadata = ("fps" :> n.val) @@ st.metadata]
              ELSE [st EXCEPT !.raised = TRUE]
         ELSE st
    ELSE IF IsSeparator(line)
    THEN IF st.frame_lines # <<>>
         THEN [st EXCEPT !.frames = Append(st.frames, Join(st.frame_lines, <<NL>>)),
                         !.frame_lines = <<>>]
         ELSE st
    ELSE [st EXCEPT !.frame_lines = Append(st.frame_lines, line)]

RECURSIVE ParseLines(_, _, _)
ParseLines(st, lines, i) ==
    IF i > Len(lines) THEN st ELSE ParseLines(ParseLine(st, lines[i]), lines, i + 1)

\* read_ascii_frames: the final frames, metadata, and whether it raised
ReadAsciiFrames(text) ==
    LET st == ParseLines(ParserStart, ReadLines(text), 1) IN
    IF st.raised THEN [frames |-> <<>>, metadata |-> <<>>, raised |-> TRUE]
    ELSE [frames |-> IF st.frame_lines # <<>>
                     THEN Append(st.frames, Join(st.frame_lines, <<NL>>))
                     ELSE st.frames,
          metadata |-> st.metadata,
          raised |-> FALSE]

PlaybackFps(metadata) == IF "fps" \in DOMAIN metadata THEN metadata["fps"] ELSE DefaultFps

\* ================================================ artifact: encode then decode
\* the artifact formats of spec section 6, for frames given as lists of rows
WellFormedArtifact(meta, text_frames) ==
    HeaderText(meta)
    \o Concat([i \in 1..Len(text_frames) |-> FrameText(text_frames[i], RuleLength)])

LegacyArtifact(text_frames) ==
    Join([i \in 1..Len(text_frames) |-> Join(text_frames[i], <<NL>>)],
         <<NL>> \o Repeat("=", RuleLength) \o <<NL>>)

SeqsUpTo(S, n) == UNION {[1..k -> S] : k \in 0..n}
SeqsFromTo(S, m, n) == UNION {[1..k -> S] : k \in m..n}

\* f"{video_width}x{video_height}"
Resolution(w, h) == IntToStr(w) \o <<"x">> \o IntToStr(h)

Metas == {[resolution |-> Resolution(80, 45), fps |-> 10],
          [resolution |-> Resolution(640, 360), fps |-> 30]}

Widths == (1..MaxNarrowWidth) \cup {RuleLength, RuleLength + 1}

\* luminance samples that map to "@", "=" and " "
GraySamples == {0, 130, 255}

\* rows of a resized grayscale frame: uniform, or dark with a light last pixel
GrayRows(w) == {[i \in 1..w |-> p] : p \in GraySamples}
               \cup {[i \in 1..w |-> IF i = w THEN 255 ELSE 0]}

GrayFrames(w) == {Concat(rows) : rows \in SeqsFromTo(GrayRows(w), 1, MaxArtRows)}

TextRows == {<<"A">>, <<"B">>, <<"C">>, <<"@", " ">>}

\* one-row frames, and taller frames whose upper rows are "A"
TextFrames == {[i \in 1..k |-> IF i = k THEN r ELSE <<"A">>] :
                  k \in 1..MaxArtRows, r \in TextRows}

InitArt ==
    /\ EncIdle
    /\ PlayIdle
    /\ GlyphIdle
    /\ a_kind \in {"encoded", "wellformed", "legacy"}
    /\ a_meta \in Metas
    /\ r_result = NoResult
    /\ a_fps_text = <<>>
    /\ IF a_kind = "encoded"
       THEN /\ a_width \in Widths
            /\ a_gray \in SeqsUpTo(GrayFrames(a_width), MaxArtFrames)
            /\ a_text = <<>>
            /\ file = <<>>
            /\ apc = "header"
       ELSE /\ a_width = RuleLength
            /\ a_gray = <<>>
            /\ a_text \in SeqsUpTo(TextFrames, MaxTextFrames)
            /\ file = IF a_kind = "wellformed"
                      THEN WellFormedArtifact(a_meta, a_text)
                      ELSE LegacyArtifact(a_text)
            /\ apc = "read"

\* write_ascii_to_file lines 86-90: open the file, write the header
ArtWriteHeader ==
    /\ apc = "header"
    /\ file' = HeaderText(a_meta)
    /\ apc' = IF a_gray = <<>> THEN "read" ELSE "frames"
    /\ UNCHANGED <<a_fps_text, glyphVars, encVars, playVars, a_kind, a_width, a_meta, a_gray, a_text, r_result>>

\* process_frame for the next frame index and f.write of its text (lines 73-79, 101)
ArtWriteFrame ==
    /\ apc = "frames"
    /\ LET gray == a_gray[Len(a_text) + 1] IN
         /\ a_text' = Append(a_text, AsciiArtLines(gray, a_width))
         /\ file' = file \o ProcessFrame(gray, a_width)
    /\ apc' = IF Len(a_text') = Len(a_gray) THEN "read" ELSE "frames"
    /\ UNCHANGED <<a_fps_text, glyphVars, encVars, playVars, a_kind, a_width, a_meta, a_gray, r_result>>

\* frames, metadata = read_ascii_frames(ascii_file_path)
ArtRead ==
    /\ apc = "read"
    /\ r_result' = ReadAsciiFrames(file)
    /\ apc' = "done"
    /\ UNCHANGED <<a_fps_text, glyphVars, encVars, playVars, a_kind, a_width, a_meta, a_gray, a_text, file>>

NextArt == ArtWriteHeader \/ ArtWriteFrame \/ ArtRead

SpecArt == InitArt /\ [][NextArt]_vars

\* the frames read_ascii_frames should return for a list of text frames
JoinedFrames(text_frames) ==
    [i \in 1..Len(text_frames) |-> Join(text_frames[i], <<NL>>)]

\* ============================================== display.py __main__ (lines 93-106)
\* header values that are not integers
BadFpsTexts == {<<"x">>, <<"2", ".", "5">>, <<>>, <<"1", " ", "0">>, <<"2", "4", "f", "p", "s">>}

\* a well-formed artifact whose "Video FPS:" line holds the given text
ArtifactWithFpsText(resolution, fps_text, text_frames) ==
    VideoResolutionKey \o <<" ">> \o resolution \o <<NL>>
    \o VideoFpsKey \o <<" ">> \o fps_text \o <<NL>>
    \o <<NL>> \o Repeat("=", RuleLength) \o <<NL, NL>>
    \o Concat([i \in 1..Len(text_frames) |-> FrameText(text_frames[i], RuleLength)])

\* the same text with every line ended by "\r\n", as a file saved with DOS line ends
DosLineEnds(text) ==
    LET Ends == {k \in 1..Len(text) : text[k] = NL}
        at(i) == i + Cardinality({k \in Ends : k < i})
        src(j) == CHOOSE i \in (j - Cardinality(Ends))..j :
                      /\ i \in 1..Len(text)
                      /\ at(i) = j \/ (i \in Ends /\ at(i) + 1 = j)
    IN [j \in 1..(Len(text) + Cardinality(Ends)) |->
           IF src(j) \notin Ends THEN text[src(j)]
           ELSE IF at(src(j)) = j THEN CR ELSE NL]

InitShow ==
    /\ EncIdle
    /\ PlayIdle
    /\ GlyphIdle
    /\ a_kind \in {"wellformed", "dos", "badfps"}
    /\ a_meta \in Metas
    /\ a_width = RuleLength
    /\ a_gray = <<>>
    /\ a_text \in SeqsUpTo(TextFrames, 1)
    /\ a_fps_text \in IF a_kind = "badfps" THEN BadFpsTexts ELSE {IntToStr(a_meta.fps)}
    /\ file = IF a_kind = "dos"
              THEN DosLineEnds(ArtifactWithFpsText(a_meta.resolution, a_fps_text, a_text))
              ELSE ArtifactWithFpsText(a_meta.resolution, a_fps_text, a_text)
    /\ r_result = NoResult
    /\ apc = "read"

\* len(frame.split('\n'))
LineCount(frame) == Cardinality({i \in 1..Len(frame) : frame[i] = NL}) + 1

\* the length of the longest line of frame.split('\n')
LongestLine(frame) ==
    LET cuts == {0, Len(frame) + 1} \cup {i \in 1..Len(frame) : frame[i] = NL}
        lens == {b - a - 1 : <<a, b>> \in
                    {c \in cuts \X cuts :
                        c[1] < c[2] /\ \A m \in cuts : ~(c[1] < m /\ m < c[2])}}
    IN CHOOSE n \in lens : \A m \in lens : m <= n

\* curses.wrapper(display_ascii_animation, frames, fps) with fps = metadata.get('fps', 24);
\* the frames of an artifact have one size, that of its first frame
StartPlayback ==
    /\ apc = "done"
    /\ ~r_result.raised
    /\ apc' = "playing"
    /\ ppc' = "start"
    /\ nframes' = Len(r_result.frames)
    /\ fps' = PlaybackFps(r_result.metadata)
    /\ frame_rows' = IF r_result.frames = <<>> THEN frame_rows
                     ELSE LineCount(r_result.frames[1])
    /\ frame_cols' = IF r_result.frames = <<>> THEN frame_cols
                     ELSE LongestLine(r_result.frames[1])
    /\ UNCHANGED <<encVars, glyphVars, a_kind, a_width, a_meta, a_gray, a_text, file,
                   r_result, a_fps_text, now, start_time, frame_start_time, frame_index,
                   render_time, elapsed_time, time_to_sleep, terminal_height,
                   terminal_width, sinkRows, sinkCols, drawnRows, drawnCols, shown,
                   sleeps, dropped, key, resized>>

\* except RuntimeError as re: print(re)
ReportError ==
    /\ apc = "done"
    /\ r_result.raised
    /\ apc' = "reported"
    /\ UNCHANGED <<encVars, playVars, glyphVars, a_kind, a_width, a_meta, a_gray, a_text,
                   file, r_result, a_fps_text>>

NextShow == ArtRead \/ StartPlayback \/ ReportError

SpecShow == InitShow /\ [][NextShow]_vars

\* ============================================== glyph mapping of frame_to_ascii
\* the values of a grayscale (8-bit) pixel
Samples == 0..255

InitGlyph ==
    /\ EncIdle
    /\ PlayIdle
    /\ apc = "idle"
    /\ a_kind = "none"
    /\ a_width = 0
    /\ a_meta = NoMeta
    /\ a_gray = <<>>
    /\ a_text = <<>>
    /\ file = <<>>
    /\ r_result = NoResult
    /\ a_fps_text = <<>>
    /\ gpc = "input"
    /\ g_dark \in Samples
    /\ g_light \in {s \in Samples : g_dark <= s}
    /\ g_dark_pos = None
    /\ g_light_pos = None
    /\ g_light_char = ""

\* line 64 applied to both samples
MapGlyphs ==
    /\ gpc = "input"
    /\ g_dark_pos' = GlyphIndex(g_dark)
    /\ g_light_pos' = GlyphIndex(g_light)
    /\ g_light_char' = Glyph(g_light)
    /\ gpc' = "mapped"
    /\ UNCHANGED <<encVars, playVars, apc, a_kind, a_width, a_meta, a_gray, a_text,
                   file, r_result, a_fps_text, g_dark, g_light>>

NextGlyph == MapGlyphs

SpecGlyph == InitGlyph /\ [][NextGlyph]_vars

\* ======================================================= encode pipeline claims

\* C1: whatever the arrival order at the writer, the frames written so far are
\* in strictly ascending frame-index order, and no frame is written before a
\* submitted frame of lower index.
C1_WrittenInIndexOrder ==
    \A b \in 1..Len(out) :
        /\ \A a \in 1..(b - 1) : out[a] < out[b]
        /\ \A i \in SeqToSet(futures) :
              i < out[b] => \E a \in 1..(b - 1) : out[a] = i

\* arrival order [2,0,1] has been written as [0,1,2]
C1_Witness == received = <<2, 0, 1>> /\ out = <<0, 1, 2>>

\* every selected frame was read and its result has been put on the queue
AllResultsPut ==
    /\ mainpc \in {"join", "done"}
    /\ futures = FrameIndices(frame_count, frame_step)

\* the largest frame index the writer has received so far
MaxReceived == CHOOSE m \in SeqToSet(received) : \A k \in SeqToSet(received) : k <= m

\* C13: between two queue reads every key of the writer's buffer is strictly
\* greater than the last-emitted index and differs from the next index to emit,
\* and the buffer is empty once the writer has terminated.
C13_BufferAboveEmitted ==
    /\ wpc \in {"loop", "get", "check", "done"}
          => \A k \in frames : k > frames_written - 1 /\ k > frames_written
    /\ wpc = "done" => frames = {}

\* frames are buffered behind a gap after some frames were emitted
C13_Witness ==
    /\ wpc = "loop"
    /\ frame_step = 1
    /\ frames_written >= 1
    /\ Cardinality(frames) >= 2

\* C14 as stated: the buffer never holds more entries than the largest index
\* received so far minus the next index to emit.
C14_SizeWithinGap ==
    received # <<>> => Cardinality(frames) <= MaxReceived - frames_written

\* C14 amended: between two queue reads the buffer never holds more entries
\* than that gap, taken as 0 when every received index has been emitted; while
\* a result is being handled it holds at most one entry more than the gap; it
\* is empty before any result is received.
C14_SizeWithinPendingGap ==
    /\ received = <<>> => frames = {}
    /\ received # <<>> =>
          Cardinality(frames) <= MaxReceived - frames_written + 1
    /\ (received # <<>> /\ wpc \in {"loop", "get", "check", "done"}) =>
          Cardinality(frames) <= (IF MaxReceived - frames_written > 0
                                  THEN MaxReceived - frames_written ELSE 0)

\* the buffer is as full as the gap allows
C14_Witness ==
    /\ received # <<>>
    /\ wpc = "loop"
    /\ Cardinality(frames) >= 2
    /\ Cardinality(frames) = MaxReceived - frames_written

\* C2: for every stride, once the results of all selected frames are on the
\* queue the writer eventually writes all of them, its counter reaches
\* total_frames, it exits and video_to_ascii returns from join().
C2_RunTerminates ==
    AllResultsPut ~> (/\ mainpc = "done"
                      /\ wpc = "done"
                      /\ frames_written = total_frames
                      /\ out = futures)

\* C15: when the transcode of a frame throws, its result is (index, "") and
\* the run still completes: every submitted frame is written in index order,
\* the throwing frame as the empty text at its own index.
C15_ThrowTolerated ==
    (mainpc = "forward" /\ throws # {})
        ~> (/\ mainpc = "done"
            /\ out = futures
            /\ \A i \in 1..Len(out) :
                  written[i] = (IF out[i] \in throws THEN EmptyArt ELSE FrameArt))

\* C16: the queue never holds more than 2 * num_processes results, and while it
\* is full nothing is put on it: the producer waits for the writer to take one.
C16_Backpressure ==
    /\ [](Len(queue) <= 2 * num_processes)
    /\ [][Len(queue) >= 2 * num_processes => Len(queue') <= Len(queue)]_vars

\* the producer holds a result while the queue is full
C16_Witness ==
    /\ mainpc = "put"
    /\ cur # None
    /\ Len(queue) = 2 * num_processes

\* C19 as stated: in every state every result the writer took from the queue is
\* either written or buffered, never both, never neither; no index is written
\* twice; the (None, None) sentinel is neither buffered nor written.
C19_Conservation ==
    /\ SeqToSet(received) = SeqToSet(out) \cup frames
    /\ SeqToSet(out) \cap frames = {}
    /\ \A a, b \in 1..Len(out) : out[a] = out[b] => a = b
    /\ Len(written) = Len(out)
    /\ None \notin frames
    /\ None \notin SeqToSet(out)

\* the result the writer has taken from the queue and not yet stored (lines 96-99)
InHand == IF wpc = "check" /\ frame_idx # None THEN {frame_idx} ELSE {}

\* C19 amended: every result the writer took from the queue is in exactly one of
\* three places: written, buffered, or (between queue.get and the store) in the
\* writer's local variable; between the handling of two results it is written
\* or buffered. No index is written twice; the sentinel is neither buffered
\* nor written.
C19_ConservationInHand ==
    /\ SeqToSet(received) = SeqToSet(out) \cup frames \cup InHand
    /\ SeqToSet(out) \cap frames = {}
    /\ InHand \cap (SeqToSet(out) \cup frames) = {}
    /\ wpc \in {"loop", "get", "done"} => SeqToSet(received) = SeqToSet(out) \cup frames
    /\ \A a, b \in 1..Len(out) : out[a] = out[b] => a = b
    /\ Len(written) = Len(out)
    /\ None \notin frames
    /\ None \notin SeqToSet(out)

\* a result is in the writer's hand while one frame is written and another buffered
C19_Witness ==
    /\ wpc = "check"
    /\ frame_idx # None
    /\ out # <<>>
    /\ frames # {}

\* C3: with an unreadable selected frame (stride 1) the run still completes,
\* with exactly the readable frames written in index order.
C3_SkipCompletes ==
    (mainpc = "forward" /\ frame_step = 1 /\ unreadable # {})
        ~> (mainpc = "done" /\ out = futures)

\* ============================================================= playback claims

\* C5: in an iteration whose time_to_sleep is <= 0 no sleep is taken and the next
\* frame index is floor(elapsed_time / frame_duration), elapsed_time measured
\* after the render; a frame dropped by a catch-up is never rendered afterwards.
C5_CatchUpPolicy ==
    [][/\ (ppc = "pace" /\ ppc' = "poll" /\ time_to_sleep' <= 0)
          => /\ frame_index' = elapsed_time' \div FrameDuration(fps)
             /\ elapsed_time' >= (now - start_time)
             /\ sleeps' = sleeps
       /\ (ppc = "render" /\ ppc' = "pace") => frame_index \notin dropped]_vars

\* a stalled render made the player skip at least one frame
C5_Witness ==
    /\ ppc = "poll"
    /\ time_to_sleep <= 0
    /\ dropped # {}
    /\ frame_index = elapsed_time \div FrameDuration(fps)
    /\ frame_index < nframes

\* every iteration so far has taken the sleep branch
AllSlept == sleeps = Len(shown) - (IF ppc = "pace" THEN 1 ELSE 0)

\* C17: in a run in which every iteration has time_to_sleep > 0 and no key is
\* pressed, each pacing step sleeps once, for at least time_to_sleep, and
\* advances the index by exactly 1; the frames rendered are 0, 1, 2, ... each
\* once and in order, and when playback has stopped they are 0..n-1 with n sleeps.
C17_NormalPacing ==
    /\ <>(ppc = "stopped" \/ ~AllSlept)
    /\ []((AllSlept /\ key = NoKey)
            => /\ shown = [i \in 1..Len(shown) |-> i - 1]
               /\ frame_index = sleeps
               /\ (ppc = "stopped" => (Len(shown) = nframes /\ sleeps = nframes)))
    /\ [][(ppc = "pace" /\ ppc' = "poll" /\ time_to_sleep' > 0)
            => /\ frame_index' = frame_index + 1
               /\ sleeps' = sleeps + 1
               /\ now' - now >= time_to_sleep']_vars

\* a whole pass at normal pace over at least two frames
C17_Witness ==
    /\ ppc = "stopped"
    /\ key = NoKey
    /\ nframes >= 2
    /\ sleeps = nframes
    /\ shown = [i \in 1..nframes |-> i - 1]

\* C18: the frame index never decreases from one iteration to the next,
\* neither by the increment nor by the catch-up recomputation.
C18_IndexNeverDecreases ==
    [][frame_index' >= frame_index]_vars

\* a catch-up recomputed the index of the frame just rendered
C18_Witness ==
    /\ ppc = "poll"
    /\ time_to_sleep <= 0
    /\ shown # <<>>
    /\ frame_index = shown[Len(shown)]
    /\ elapsed_time > 0

\* C6: every render is clipped to the terminal's dimensions as they are at that
\* iteration: the rows and columns passed to the screen are those of the frame
\* cut to the current height and width, so no row >= current height and no
\* column >= current width is written.
C6_ClippedToCurrentSize ==
    [][(ppc = "render" /\ ppc' # "render")
         => /\ drawnRows' = Clip(frame_rows, sinkRows)
            /\ drawnCols' = Clip(frame_cols, sinkCols)
            /\ drawnRows' <= sinkRows
            /\ drawnCols' <= sinkCols]_vars

\* C7: a key press observed by the poll stops playback at once: the function
\* returns, and no further frame is rendered and no further sleep is taken.
C7_CancelOnKey ==
    [][/\ (ppc = "poll" /\ key' # NoKey) => ppc' = "stopped"
       /\ ppc = "stopped" => (ppc' = "stopped" /\ shown' = shown /\ sleeps' = sleeps
                               /\ frame_index' = frame_index)]_vars

\* playback was cancelled by a key before the last frame
C7_Witness ==
    /\ ppc = "stopped"
    /\ key # NoKey
    /\ frame_index < nframes
    /\ shown # <<>>

\* C8: playback reaches Stopped; without a key press it stops exactly when
\* frame_index >= len(frames); every rendered index is within 0..len(frames)-1;
\* the index is never reset to 0.
C8_TerminatesWithoutLooping ==
    /\ <>(ppc = "stopped")
    /\ [](\A j \in 1..Len(shown) : 0 <= shown[j] /\ shown[j] < nframes)
    /\ []((ppc = "stopped" /\ key = NoKey) => frame_index >= nframes)
    /\ [][/\ (ppc = "test" /\ frame_index >= nframes /\ ppc' # ppc) => ppc' = "stopped"
          /\ frame_index > 0 => frame_index' > 0]_vars

\* ============================================================= artifact claims

\* C4: round trip: reading the artifact generate.py wrote returns the metadata
\* written and the same frames, same number, same order, same rows.
C4_RoundTrip ==
    (apc = "done" /\ a_kind = "encoded")
        => /\ ~r_result.raised
           /\ r_result.metadata = a_meta
           /\ r_result.frames = JoinedFrames(a_text)

\* C9: a header-less legacy artifact parses into all its frames, in order, and
\* its metadata has no fps, so that the caller's default fps is used.
C9_LegacyParses ==
    (apc = "done" /\ a_kind = "legacy")
        => /\ ~r_result.raised
           /\ r_result.frames = JoinedFrames(a_text)
           /\ "fps" \notin DOMAIN r_result.metadata
           /\ PlaybackFps(r_result.metadata) = DefaultFps

\* C10: a well-formed artifact (header, blank line, rule, blank line, n frames
\* each followed by a rule) decodes to its metadata and exactly its n frames.
C10_WellFormedDecodes ==
    (apc = "done" /\ a_kind = "wellformed")
        => /\ ~r_result.raised
           /\ r_result.metadata = a_meta
           /\ Len(r_result.frames) = Len(a_text)
           /\ \A i \in 1..Len(a_text) : r_result.frames[i] = Join(a_text[i], <<NL>>)

\* ================================================================ glyph claims

\* C11 as stated, 256/N read as the true quotient 25.6: the position selected
\* for a sample s is min(N-1, floor(s / (256/N))) = min(N-1, floor(s*N / 256)).
C11_TrueQuotientPosition ==
    gpc = "mapped"
        => g_light_pos = Min(Len(ASCII_CHARS) - 1, (g_light * Len(ASCII_CHARS)) \div 256)

\* C11 amended: for N = 10 the bucket width is the integer quotient 256 // N = 25:
\* the position is min(9, s // 25); sample 0 maps to the first ramp character,
\* 255 to the last; the position is within 0..9 and non-decreasing in s.
C11_GlyphMapper ==
    gpc = "mapped"
        => /\ g_light_pos = Min(9, g_light \div 25)
           /\ g_light_pos \in 0..9
           /\ g_light_char = ASCII_CHARS[g_light_pos + 1]
           /\ (g_light = 0 => g_light_char = "@")
           /\ (g_light = 255 => g_light_char = " ")
           /\ g_dark_pos <= g_light_pos

\* the clamp is in effect: 250 // 25 = 10 is mapped to the last position
C11_Witness ==
    /\ gpc = "mapped"
    /\ g_dark = 25
    /\ g_dark_pos = 1
    /\ g_light = 250
    /\ g_light_pos = 9

\* =============================================================== header claims

\* C12: an artifact whose "Video FPS:" header value is not an integer makes
\* read_ascii_frames raise: no frames and no metadata are returned and playback
\* is never started.
C12_BadFpsRaises ==
    (a_kind = "badfps" /\ apc \notin {"read"})
        => /\ r_result.raised
           /\ r_result.frames = <<>>
           /\ r_result.metadata = <<>>
           /\ apc # "playing"
           /\ ppc = "idle"

\* the error of a bad header in front of a frame has been reported
C12_Witness ==
    /\ a_kind = "badfps"
    /\ apc = "reported"
    /\ a_text # <<>>
    /\ r_result.raised

====
